---- MODULE Spec2Model ----
(***************************************************************************)
(* Scoring and classification engine of the river recommender             *)
(* (rivers_evaluation.py, usgs_water.py).                                  *)
(*                                                                         *)
(* Numbers.  Python floats are modelled by exact arithmetic on integers:   *)
(*   - gauge readings and bounds are integers in one common level unit;    *)
(*   - wind and gust speeds are integers in mph;                           *)
(*   - distance_miles is in tenths of a mile (the code rounds it to one    *)
(*     decimal);                                                           *)
(*   - a score is in hundredths of a point (the code rounds it to two      *)
(*     decimals), so 100.99 is 10099;                                      *)
(*   - the unrounded water component is a fraction [n, d], d = 0 standing  *)
(*     for the ZeroDivisionError of a division by zero.                    *)
(* A Python optional is a sequence of length at most one: None is <<>>.    *)
(* Readings and bounds are finite numbers; a NaN flow bound is None, as    *)
(* evaluate_all_rivers converts it.                                        *)
(***************************************************************************)
EXTENDS Integers, Sequences, FiniteSets

VARIABLES river, latest, result, pc, arg, ret,
          df, services, params, index, results, excluded_count, calls,
          day_offset, day_results, daily_forecasts

\* the variables of a run over a whole catalog
runVars == <<df, services, params, index, results, excluded_count, calls,
             day_offset, day_results, daily_forecasts>>

vars == <<river, latest, result, pc, arg, ret, runVars>>

None == <<>>
Some(x) == <<x>>

----------------------------------------------------------------------------
(* Bounds of the model *)

MaxLevel == 10
MaxCfs == 1
MaxWind == 25
MaxGust == 36
MaxDistance == 2100
MaxScore == 10099

Levels == 0..MaxLevel
CfsLevels == 0..MaxCfs
OptLevels == {None} \cup {Some(x) : x \in Levels}
OptCfs == {None} \cup {Some(x) : x \in CfsLevels}

\* the catalog rows: feet bounds and flow bounds, each possibly absent
Rivers == [min_level : OptLevels, max_level : OptLevels,
           min_cfs : OptCfs, max_cfs : OptCfs]

\* what the USGS service can answer to one request
GaugeOutcomes(values) ==
    {[kind |-> "raise", value |-> 0], [kind |-> "empty", value |-> 0],
     [kind |-> "no_column", value |-> 0]}
    \cup {[kind |-> "row", value |-> v] : v \in values}

WindSpeeds == 0..MaxWind
GustSpeeds == 0..MaxGust
WeatherSamples == [wind_speed : WindSpeeds, wind_gusts : GustSpeeds]

\* distances on a 10-mile grid, each with the next tenth of a mile
Distances == {d \in 0..MaxDistance : d % 100 \in {0, 1}}

----------------------------------------------------------------------------
(* usgs_water.py *)

\* get_latest_water_level: every failure and every empty answer is None
get_latest_water_level(outcome) ==
    IF outcome.kind = "row"
    THEN Some([level |-> outcome.value, timestamp |-> "df.index[-1]", metric |-> "feet"])
    ELSE None

get_latest_discharge(outcome) ==
    IF outcome.kind = "row"
    THEN Some([level |-> outcome.value, timestamp |-> "df.index[-1]", metric |-> "cfs"])
    ELSE None

use_cfs(min_cfs, max_cfs) == min_cfs # None /\ max_cfs # None

\* min_val <= current_level <= max_val, then current_level < min_val: Python
\* raises TypeError when it compares a number with None, and the chained
\* comparison does not evaluate its second half when the first is false
RangeRaises(min_val, current_level, max_val) ==
    \/ min_val = None
    \/ (min_val[1] <= current_level /\ max_val = None)

\* a variant of RangeStatus whose range excludes its two ends
RangeStatus_Exclusive(min_val, current_level, max_val) ==
    IF min_val[1] < current_level /\ current_level < max_val[1] THEN "good"
    ELSE IF current_level < min_val[1] THEN "too_low"
    ELSE "too_high"

RangeStatus(min_val, current_level, max_val) ==
    IF min_val[1] <= current_level /\ current_level <= max_val[1] THEN "good"
    ELSE IF current_level < min_val[1] THEN "too_low"
    ELSE "too_high"

\* `lat` is what get_latest_discharge / get_latest_water_level returned
check_water_level_range(lat, min_level, max_level, min_cfs, max_cfs) ==
    LET cfs == use_cfs(min_cfs, max_cfs)
        min_val == IF cfs THEN min_cfs ELSE min_level
        max_val == IF cfs THEN max_cfs ELSE max_level
        metric == IF cfs THEN "cfs" ELSE "feet"
    IN  IF lat = None
        THEN [status |-> "no_data", message |-> "No data available",
              current_level |-> None, timestamp |-> None,
              min_level |-> IF metric = "feet" THEN min_val ELSE None,
              max_level |-> IF metric = "feet" THEN max_val ELSE None,
              min_cfs |-> IF metric = "cfs" THEN min_val ELSE None,
              max_cfs |-> IF metric = "cfs" THEN max_val ELSE None,
              metric |-> metric]
        ELSE IF RangeRaises(min_val, lat[1].level, max_val)
        THEN [status |-> "error", message |-> "Error: TypeError",
              current_level |-> None, timestamp |-> None,
              min_level |-> min_level, max_level |-> max_level,
              min_cfs |-> min_cfs, max_cfs |-> max_cfs,
              metric |-> "unknown"]
        ELSE [status |-> RangeStatus(min_val, lat[1].level, max_val),
              message |-> RangeStatus(min_val, lat[1].level, max_val),
              current_level |-> Some(lat[1].level),
              timestamp |-> Some(lat[1].timestamp),
              min_level |-> IF metric = "feet" THEN min_val ELSE None,
              max_level |-> IF metric = "feet" THEN max_val ELSE None,
              min_cfs |-> IF metric = "cfs" THEN min_val ELSE None,
              max_cfs |-> IF metric = "cfs" THEN max_val ELSE None,
              metric |-> metric]

----------------------------------------------------------------------------
(* rivers_evaluation.py: calculate_river_score, get_recommendation *)

Frac(n, d) == [n |-> n, d |-> d]

\* ideal_min = min_val + (max_val - min_val) * 0.3, times ten
ideal_min10(min_val, max_val) == 10 * min_val + (max_val - min_val) * 3

\* a variant of WaterPoints whose ideal band excludes ideal_min
WaterPoints_StrictIdeal(min_val, max_val, current_level) ==
    IF current_level > max_val THEN Frac(5, 1)
    ELSE IF current_level < min_val THEN Frac(0, 1)
    ELSE IF 10 * current_level > ideal_min10(min_val, max_val) THEN Frac(60, 1)
    ELSE LET den == ideal_min10(min_val, max_val) - 10 * min_val
         IN  Frac(20 * den + 25 * 10 * (current_level - min_val), den)

\* a variant of WaterPoints that scales the lower band from 20 to 50
WaterPoints_Scale30(min_val, max_val, current_level) ==
    IF current_level > max_val THEN Frac(5, 1)
    ELSE IF current_level < min_val THEN Frac(0, 1)
    ELSE IF 10 * current_level >= ideal_min10(min_val, max_val) THEN Frac(60, 1)
    ELSE LET den == ideal_min10(min_val, max_val) - 10 * min_val
         IN  Frac(20 * den + 30 * 10 * (current_level - min_val), den)

\* the if / elif chain on current_level; the last branch is
\* 20 + 25 * (current_level - min_val) / (ideal_min - min_val)
\* a variant of WaterPoints that gives a reading above the maximum nothing
WaterPoints_AboveMaxZero(min_val, max_val, current_level) ==
    IF current_level > max_val THEN Frac(0, 1)
    ELSE IF current_level < min_val THEN Frac(0, 1)
    ELSE IF 10 * current_level >= ideal_min10(min_val, max_val) THEN Frac(60, 1)
    ELSE LET den == ideal_min10(min_val, max_val) - 10 * min_val
         IN  Frac(20 * den + 25 * 10 * (current_level - min_val), den)

WaterPoints(min_val, max_val, current_level) ==
    IF current_level > max_val THEN Frac(5, 1)
    ELSE IF current_level < min_val THEN Frac(0, 1)
    ELSE IF 10 * current_level >= ideal_min10(min_val, max_val) THEN Frac(60, 1)
    ELSE LET den == ideal_min10(min_val, max_val) - 10 * min_val
         IN  Frac(20 * den + 25 * 10 * (current_level - min_val), den)

\* a variant of WaterScore that reads an absent bound as 0
WaterScore_DefaultBounds(res) ==
    IF res.water_status = None \/ res.water_status[1].status = "error"
    THEN Frac(0, 1)
    ELSE LET water_status == res.water_status[1]
             current_level == water_status.current_level
             metric == water_status.metric
             min_val == IF metric = "cfs" THEN res.min_cfs ELSE res.min_level
             max_val == IF metric = "cfs" THEN res.max_cfs ELSE res.max_level
         IN  IF current_level = None THEN Frac(0, 1)
             ELSE WaterPoints(IF min_val = None THEN 0 ELSE min_val[1],
                              IF max_val = None THEN 0 ELSE max_val[1],
                              current_level[1])

WaterScore(res) ==
    IF res.water_status = None \/ res.water_status[1].status = "error"
    THEN Frac(0, 1)
    ELSE LET water_status == res.water_status[1]
             current_level == water_status.current_level
             metric == water_status.metric
             min_val == IF metric = "cfs" THEN res.min_cfs ELSE res.min_level
             max_val == IF metric = "cfs" THEN res.max_cfs ELSE res.max_level
         IN  IF current_level = None THEN Frac(0, 1)
             ELSE IF min_val = None \/ max_val = None THEN Frac(0, 1)
             ELSE WaterPoints(min_val[1], max_val[1], current_level[1])

\* a variant of WindScore whose bands exclude their upper ends
WindScore_StrictThresholds(current_conditions) ==
    IF current_conditions = None THEN 0
    ELSE LET wind_speed == current_conditions[1].wind_speed
             wind_gusts == current_conditions[1].wind_gusts
             wind_score == IF wind_speed < 5 THEN 40
                           ELSE IF wind_speed < 10 THEN 35
                           ELSE IF wind_speed < 15 THEN 20
                           ELSE IF wind_speed < 20 THEN 10
                           ELSE 0
         IN  IF wind_gusts > wind_speed + 10
             THEN (IF wind_score - 10 > 0 THEN wind_score - 10 ELSE 0)
             ELSE wind_score

\* a variant of WindScore whose gust penalty is not floored at 0
WindScore_NoFloor(current_conditions) ==
    IF current_conditions = None THEN 0
    ELSE LET wind_speed == current_conditions[1].wind_speed
             wind_gusts == current_conditions[1].wind_gusts
             wind_score == IF wind_speed <= 5 THEN 40
                           ELSE IF wind_speed <= 10 THEN 35
                           ELSE IF wind_speed <= 15 THEN 20
                           ELSE IF wind_speed <= 20 THEN 10
                           ELSE 0
         IN  IF wind_gusts > wind_speed + 10
             THEN wind_score - 10
             ELSE wind_score

WindScore(current_conditions) ==
    IF current_conditions = None THEN 0
    ELSE LET wind_speed == current_conditions[1].wind_speed
             wind_gusts == current_conditions[1].wind_gusts
             wind_score == IF wind_speed <= 5 THEN 40
                           ELSE IF wind_speed <= 10 THEN 35
                           ELSE IF wind_speed <= 15 THEN 20
                           ELSE IF wind_speed <= 20 THEN 10
                           ELSE 0
         IN  IF wind_gusts > wind_speed + 10
             THEN (IF wind_score - 10 > 0 THEN wind_score - 10 ELSE 0)
             ELSE wind_score

\* a variant of DistanceBonus that keeps the initial 0 beyond 200 miles
DistanceBonus_FarZero(distance_miles) ==
    IF distance_miles # None
    THEN IF distance_miles[1] <= 300 THEN 99
         ELSE IF distance_miles[1] <= 600 THEN 80
         ELSE IF distance_miles[1] <= 1000 THEN 60
         ELSE IF distance_miles[1] <= 1500 THEN 40
         ELSE IF distance_miles[1] <= 2000 THEN 20
         ELSE 0
    ELSE 50

\* distance_bonus in hundredths; distance_miles in tenths of a mile
DistanceBonus(distance_miles) ==
    IF distance_miles # None
    THEN IF distance_miles[1] <= 300 THEN 99
         ELSE IF distance_miles[1] <= 600 THEN 80
         ELSE IF distance_miles[1] <= 1000 THEN 60
         ELSE IF distance_miles[1] <= 1500 THEN 40
         ELSE IF distance_miles[1] <= 2000 THEN 20
         ELSE 1
    ELSE 50

\* round(n / d) for n >= 0, d > 0: to the nearest integer, a tie to the even one
Round(n, d) ==
    LET q == n \div d
        r == n % d
    IN  IF 2 * r < d THEN q
        ELSE IF 2 * r > d THEN q + 1
        ELSE IF q % 2 = 0 THEN q ELSE q + 1

\* the division of the last branch by ideal_min - min_val = 0
ScoreRaises(res) == WaterScore(res).d = 0

\* round(score + distance_bonus, 2), in hundredths
calculate_river_score(res) ==
    LET water == WaterScore(res)
        rest == 100 * WindScore(res.current_conditions)
                + DistanceBonus(res.distance_miles)
    IN  Round(100 * water.n + rest * water.d, water.d)

\* a variant of get_recommendation that rounds the score instead of truncating it
get_recommendation_Rounded(res) ==
    LET main_score == (res.overall_score + 50) \div 100
    IN  IF main_score >= 85 THEN "Perfect conditions!"
        ELSE IF main_score >= 70 THEN "Excellent choice!"
        ELSE IF main_score >= 50 THEN "Good option"
        ELSE IF main_score >= 30 THEN "Marginal conditions"
        ELSE IF main_score >= 15 THEN "Poor conditions"
        ELSE "Avoid"

\* main_score = int(score); the tier strings without their leading emoji
get_recommendation(res) ==
    LET main_score == res.overall_score \div 100
    IN  IF main_score >= 85 THEN "Perfect conditions!"
        ELSE IF main_score >= 70 THEN "Excellent choice!"
        ELSE IF main_score >= 50 THEN "Good option"
        ELSE IF main_score >= 30 THEN "Marginal conditions"
        ELSE IF main_score >= 15 THEN "Poor conditions"
        ELSE "Avoid"

----------------------------------------------------------------------------
(* Evaluation of one catalog row (the body of the loop of evaluate_all_rivers) *)

NoArg == <<>>

\* no run over a catalog is in progress
RunIdle ==
    /\ df = <<>>
    /\ services = <<>>
    /\ params = NoArg
    /\ index = 0
    /\ results = <<>>
    /\ excluded_count = 0
    /\ calls = <<>>
    /\ day_offset = 0
    /\ day_results = <<>>
    /\ daily_forecasts = <<>>

InitResult(r) ==
    [min_level |-> r.min_level, max_level |-> r.max_level,
     min_cfs |-> r.min_cfs, max_cfs |-> r.max_cfs,
     distance_miles |-> None, water_status |-> None,
     current_conditions |-> None,
     overall_score |-> 0, recommendation |-> "unknown"]

Init ==
    /\ river \in Rivers
    /\ latest = None
    /\ result = InitResult(river)
    /\ pc = "distance"
    /\ arg = NoArg
    /\ ret = NoArg
    /\ RunIdle

\* the distances and weather samples of the evaluation of one row
RowDistances == {None} \cup {Some(d) : d \in {x \in Distances : x % 700 = 0}}
RowSamples ==
    {None} \cup {Some(s) : s \in {x \in WeatherSamples :
                    x.wind_speed % 10 = 0
                    /\ x.wind_gusts \in {x.wind_speed, x.wind_speed + 11}}}

\* lines 111-130 without the distance filter: the geocoder gives a distance or not
Distance ==
    /\ pc = "distance"
    /\ \E d \in RowDistances : result' = [result EXCEPT !.distance_miles = d]
    /\ pc' = "water"
    /\ UNCHANGED <<river, latest, arg, ret>>
    /\ UNCHANGED runVars

\* lines 132-149: the gauge is asked for the active metric and classified
CheckWater ==
    /\ pc = "water"
    /\ \E o \in GaugeOutcomes(0..(IF use_cfs(result.min_cfs, result.max_cfs)
                                  THEN MaxCfs + 1 ELSE MaxLevel + 1)) :
          /\ latest' = IF use_cfs(result.min_cfs, result.max_cfs)
                       THEN get_latest_discharge(o)
                       ELSE get_latest_water_level(o)
          /\ result' = [result EXCEPT !.water_status =
                          Some(check_water_level_range(latest', result.min_level,
                               result.max_level, result.min_cfs, result.max_cfs))]
    /\ pc' = "weather"
    /\ UNCHANGED <<river, arg, ret>>
    /\ UNCHANGED runVars

\* lines 151-201: a weather sample, or none
CheckWeather ==
    /\ pc = "weather"
    /\ \E s \in RowSamples : result' = [result EXCEPT !.current_conditions = s]
    /\ pc' = "score"
    /\ UNCHANGED <<river, latest, arg, ret>>
    /\ UNCHANGED runVars

\* lines 203-206
Score ==
    /\ pc = "score"
    /\ IF ScoreRaises(result)
       THEN /\ pc' = "raised"
            /\ UNCHANGED result
       ELSE /\ pc' = "done"
            /\ result' = [result EXCEPT
                 !.overall_score = calculate_river_score(result),
                 !.recommendation = get_recommendation(
                     [result EXCEPT !.overall_score = calculate_river_score(result)])]
    /\ UNCHANGED <<river, latest, arg, ret>>
    /\ UNCHANGED runVars

Next == Distance \/ CheckWater \/ CheckWeather \/ Score

Spec == Init /\ [][Next]_vars

----------------------------------------------------------------------------
(* The scoring functions applied to drawn inputs *)

\* the variables of the evaluation of a row, at rest
RowIdle ==
    /\ river = [min_level |-> None, max_level |-> None,
                min_cfs |-> None, max_cfs |-> None]
    /\ latest = None
    /\ result = InitResult(river)

\* neither a row nor a run over a catalog is being evaluated
FunctionIdle == RowIdle /\ RunIdle

\* two weather samples with the same gust speed, or no sample
InitWind ==
    /\ FunctionIdle
    /\ pc = "wind"
    /\ arg \in {<<None, None>>}
              \cup {<<Some([wind_speed |-> t[1], wind_gusts |-> t[3]]),
                      Some([wind_speed |-> t[2], wind_gusts |-> t[3]])>> :
                        t \in WindSpeeds \X WindSpeeds \X GustSpeeds}
    /\ ret = NoArg

ApplyWind ==
    /\ pc = "wind"
    /\ ret' = <<WindScore(arg[1]), WindScore(arg[2])>>
    /\ pc' = "done"
    /\ UNCHANGED <<river, latest, result, arg>>
    /\ UNCHANGED runVars

SpecWind == InitWind /\ [][ApplyWind]_vars

\* two distances, or none
InitDistance ==
    /\ FunctionIdle
    /\ pc = "distance_bonus"
    /\ arg \in {<<None, None>>} \cup {<<Some(a), Some(b)>> : a, b \in Distances}
    /\ ret = NoArg

ApplyDistance ==
    /\ pc = "distance_bonus"
    /\ ret' = <<DistanceBonus(arg[1]), DistanceBonus(arg[2])>>
    /\ pc' = "done"
    /\ UNCHANGED <<river, latest, result, arg>>
    /\ UNCHANGED runVars

SpecDistance == InitDistance /\ [][ApplyDistance]_vars

\* two overall scores: every whole point with .00, .50 and .99
Scores == {s \in 0..MaxScore : s % 100 \in {0, 50, 99}}

InitTier ==
    /\ FunctionIdle
    /\ pc = "recommendation"
    /\ arg \in Scores \X Scores
    /\ ret = NoArg

ApplyTier ==
    /\ pc = "recommendation"
    /\ ret' = <<get_recommendation([result EXCEPT !.overall_score = arg[1]]),
                get_recommendation([result EXCEPT !.overall_score = arg[2]])>>
    /\ pc' = "done"
    /\ UNCHANGED <<river, latest, result, arg>>
    /\ UNCHANGED runVars

SpecTier == InitTier /\ [][ApplyTier]_vars

----------------------------------------------------------------------------
(* check_water_level_range applied to drawn bounds and gauge answers *)

\* a catalog row's bounds and what the USGS service answers for its site
InitGauge ==
    /\ FunctionIdle
    /\ pc = "check_water_level_range"
    /\ arg \in [bounds : Rivers, outcome : GaugeOutcomes(0..(MaxLevel + 1))]
    /\ ret = NoArg

ApplyGauge ==
    /\ pc = "check_water_level_range"
    /\ ret' = check_water_level_range(
                 IF use_cfs(arg.bounds.min_cfs, arg.bounds.max_cfs)
                 THEN get_latest_discharge(arg.outcome)
                 ELSE get_latest_water_level(arg.outcome),
                 arg.bounds.min_level, arg.bounds.max_level,
                 arg.bounds.min_cfs, arg.bounds.max_cfs)
    /\ pc' = "done"
    /\ UNCHANGED <<river, latest, result, arg>>
    /\ UNCHANGED runVars

SpecGauge == InitGauge /\ [][ApplyGauge]_vars

----------------------------------------------------------------------------
(* The condition assessors: weather.py assess_paddling_conditions and       *)
(* rivers_evaluation.py assess_forecast_conditions.  A sample is a Python  *)
(* dict, here a function from its keys: a missing key is not in its        *)
(* DOMAIN.  Temperatures are in whole degrees, the precipitation amount in *)
(* hundredths of an inch, the precipitation probability in percent.        *)

\* issues = [] followed by one `if rule: issues.append(text)` per rule
AppendViolated(rules) ==
    LET violated == SelectSeq(rules, LAMBDA r : r[1])
    IN  [k \in 1..Len(violated) |-> violated[k][2]]

\* a variant of AssessStatus that takes two issues for a caution
AssessStatus_TwoIsCaution(issues) ==
    IF issues = <<>> THEN "good"
    ELSE IF Len(issues) <= 2 THEN "caution"
    ELSE "poor"

AssessStatus(issues) ==
    IF issues = <<>> THEN "good"
    ELSE IF Len(issues) = 1 THEN "caution"
    ELSE "poor"

CurrentKeys == {"wind_speed_10m", "wind_gusts_10m", "precipitation", "temperature_2m"}
ForecastKeys == {"wind_speed", "wind_gusts", "precipitation_probability", "temperature"}

\* `weather_data` is the API answer or None
assess_paddling_conditions(weather_data) ==
    IF weather_data = None
    THEN [status |-> "no_data", message |-> "No weather data available"]
    ELSE LET current == weather_data[1].current
         IN  IF ~(CurrentKeys \subseteq DOMAIN current)
             THEN [status |-> "error", message |-> "Error assessing conditions"]
             ELSE LET issues == AppendViolated(<<
                        <<current.wind_speed_10m > 15, "High wind speed">>,
                        <<current.wind_gusts_10m > 20, "Strong wind gusts">>,
                        <<current.precipitation > 10, "Active precipitation">>,
                        <<current.temperature_2m < 50, "Cold temperature">>,
                        <<current.temperature_2m > 95, "Very hot temperature">> >>)
                  IN  [status |-> AssessStatus(issues),
                       message |-> AssessStatus(issues),
                       wind_speed |-> current.wind_speed_10m,
                       wind_gusts |-> current.wind_gusts_10m,
                       precipitation |-> current.precipitation,
                       temperature |-> current.temperature_2m,
                       issues |-> issues]

assess_forecast_conditions(day_forecast) ==
    IF ~(ForecastKeys \subseteq DOMAIN day_forecast)
    THEN [status |-> "error", message |-> "Error assessing forecast conditions"]
    ELSE LET issues == AppendViolated(<<
               <<day_forecast.wind_speed > 15, "High wind speed">>,
               <<day_forecast.wind_gusts > 20, "Strong wind gusts">>,
               <<day_forecast.precipitation_probability > 70, "High rain chance">>,
               <<day_forecast.temperature < 50, "Cold temperature">>,
               <<day_forecast.temperature > 95, "Very hot temperature">> >>)
         IN  [status |-> AssessStatus(issues),
              message |-> AssessStatus(issues),
              wind_speed |-> day_forecast.wind_speed,
              wind_gusts |-> day_forecast.wind_gusts,
              precipitation_prob |-> day_forecast.precipitation_probability,
              temperature |-> day_forecast.temperature,
              issues |-> issues]

\* the dicts that carry some of the keys of `values`, each with one of its values
DictsOver(values) ==
    UNION {{d \in [keys -> UNION {values[k] : k \in keys}] :
               \A k \in keys : d[k] \in values[k]} :
           keys \in SUBSET DOMAIN values}

\* sample values on both sides of every threshold
CurrentSamples ==
    DictsOver([wind_speed_10m |-> {15, 16}, wind_gusts_10m |-> {20, 21},
               precipitation |-> {10, 11}, temperature_2m |-> {49, 50, 95, 96}])
ForecastSamples ==
    DictsOver([wind_speed |-> {15, 16}, wind_gusts |-> {20, 21},
               precipitation_probability |-> {70, 71},
               temperature |-> {49, 50, 95, 96}])

InitAssess ==
    /\ FunctionIdle
    /\ pc = "assess"
    /\ arg \in [kind : {"current"}, sample : CurrentSamples]
                 \cup [kind : {"forecast"}, sample : ForecastSamples]
    /\ ret = NoArg

ApplyAssess ==
    /\ pc = "assess"
    /\ ret' = IF arg.kind = "current"
              THEN assess_paddling_conditions(Some([current |-> arg.sample]))
              ELSE assess_forecast_conditions(arg.sample)
    /\ pc' = "done"
    /\ UNCHANGED <<river, latest, result, arg>>
    /\ UNCHANGED runVars

SpecAssess == InitAssess /\ [][ApplyAssess]_vars

----------------------------------------------------------------------------
(* The whitewater filter of evaluate_all_rivers and of                      *)
(* get_weekly_river_forecast                                                *)

\* the whitewater difficulty scale of the catalog
MaxWhitewater == 6
Whitewaters == 0..MaxWhitewater
Thresholds == {None} \cup {Some(t) : t \in (0 - MaxWhitewater)..MaxWhitewater}

\* a variant of WhitewaterSkips whose minimum filter also drops |t| itself
WhitewaterSkips_MinInclusive(max_whitewater, whitewater) ==
    /\ max_whitewater # None
    /\ IF max_whitewater[1] < 0
       THEN whitewater <= 0 - max_whitewater[1]
       ELSE whitewater >= max_whitewater[1]

\* evaluate_all_rivers: does the row `continue` at the whitewater filter
WhitewaterSkips(max_whitewater, whitewater) ==
    /\ max_whitewater # None
    /\ IF max_whitewater[1] < 0
       THEN LET min_whitewater == 0 - max_whitewater[1]
            IN  whitewater < min_whitewater
       ELSE whitewater >= max_whitewater[1]

\* get_weekly_river_forecast: the same test, written a second time
WeeklyWhitewaterSkips(max_whitewater, whitewater) ==
    /\ max_whitewater # None
    /\ IF max_whitewater[1] < 0
       THEN LET min_whitewater == 0 - max_whitewater[1]
            IN  whitewater < min_whitewater
       ELSE whitewater >= max_whitewater[1]

InitFilter ==
    /\ FunctionIdle
    /\ pc = "whitewater_filter"
    /\ arg \in [max_whitewater : Thresholds, whitewater : Whitewaters]
    /\ ret = NoArg

ApplyFilter ==
    /\ pc = "whitewater_filter"
    /\ ret' = [single |-> WhitewaterSkips(arg.max_whitewater, arg.whitewater),
               weekly |-> WeeklyWhitewaterSkips(arg.max_whitewater, arg.whitewater)]
    /\ pc' = "done"
    /\ UNCHANGED <<river, latest, result, arg>>
    /\ UNCHANGED runVars

SpecFilter == InitFilter /\ [][ApplyFilter]_vars

----------------------------------------------------------------------------
(* A run of evaluate_all_rivers over a catalog.  The catalog `df` is a      *)
(* sequence of rows and `services` holds, row by row, what the             *)
(* collaborators answer for that row during the run: the geocoder (as the  *)
(* distance from home that its coordinates give, None when it returns no   *)
(* coordinates), the USGS service and the weather service.  `calls` is the *)
(* log of the requests made to them; a row is named by its catalog index,  *)
(* the home ZIP by 0.                                                      *)

\* the longest catalog of a run
MaxRivers == 2

\* range(1, 8): the days of a weekly forecast
ForecastDays == 7

\* a variant of InsertPosition that puts a row before the rows of equal key
InsertPosition_BeforeTies(sorted, x, key) ==
    Cardinality({j \in 1..Len(sorted) : sorted[j][key] > x[key]})

\* where a stable descending sort puts x among the rows that precede it in
\* the list: behind every row whose key is at least its own
InsertPosition(sorted, x, key) ==
    Cardinality({j \in 1..Len(sorted) : sorted[j][key] >= x[key]})

\* list.sort(key = lambda x: x[key], reverse = True)
RECURSIVE sort_reverse(_, _)
sort_reverse(list, key) ==
    IF list = <<>> THEN <<>>
    ELSE LET sorted == sort_reverse(SubSeq(list, 1, Len(list) - 1), key)
             x == list[Len(list)]
             at == InsertPosition(sorted, x, key)
         IN  SubSeq(sorted, 1, at) \o <<x>> \o SubSeq(sorted, at + 1, Len(sorted))

\* a date string is the offset from today of the day it names; BadDate stands
\* for the strings that are not a date in the form YYYY-MM-DD
BadDate == 0 - 1

\* every string is taken for a date
strptime_Lenient(target_date) == FALSE

\* datetime.strptime(target_date, '%Y-%m-%d') raises ValueError
strptime_raises(target_date) == target_date = Some(BadDate)

\* is_today = target_date == date.today(); a date is its offset from today
is_today(target_date) == target_date = None \/ target_date = Some(0)

\* get_current_conditions: the current block under the scoring keys
get_current_conditions(weather_data) ==
    IF weather_data = None THEN None
    ELSE IF ~(CurrentKeys \subseteq DOMAIN weather_data[1].current) THEN None
    ELSE Some([temperature |-> weather_data[1].current.temperature_2m,
               precipitation |-> weather_data[1].current.precipitation,
               wind_speed |-> weather_data[1].current.wind_speed_10m,
               wind_gusts |-> weather_data[1].current.wind_gusts_10m])

\* get_forecast_for_date: the day's aggregate of the hours of that date,
\* None when the answer has no hour of that date
get_forecast_for_date(weather_data, target_date) ==
    IF target_date \in DOMAIN weather_data.hourly
    THEN weather_data.hourly[target_date]
    ELSE None

\* the result dict of a row before any lookup
NewResult(row, name, target_date) ==
    [name |-> name, whitewater |-> row.whitewater,
     min_level |-> row.min_level, max_level |-> row.max_level,
     min_cfs |-> row.min_cfs, max_cfs |-> row.max_cfs,
     target_date |-> target_date, is_today |-> is_today(target_date),
     distance_miles |-> None, water_status |-> None, weather_status |-> None,
     current_conditions |-> None, overall_score |-> 0,
     recommendation |-> "unknown", issues |-> <<>>]

\* lines 111-123: the distance is computed when both ZIPs have coordinates
RowDistance(home_located, geocode) == IF home_located THEN geocode ELSE None

\* a variant of DistanceSkips that also drops a river at the maximum itself
DistanceSkips_AtMaximum(max_distance, distance_miles) ==
    /\ distance_miles # None
    /\ max_distance # None
    /\ distance_miles[1] >= max_distance[1]

\* lines 125-130: does the row `continue` at the distance filter
DistanceSkips(max_distance, distance_miles) ==
    /\ distance_miles # None
    /\ max_distance # None
    /\ distance_miles[1] > max_distance[1]

\* the gauge is read only when the evaluation is for today
CheckWaterLevels_TodayOnly(res, gauge) ==
    IF "is_today" \in DOMAIN res /\ res.is_today
    THEN [res EXCEPT !.water_status =
            Some(check_water_level_range(
                    IF use_cfs(res.min_cfs, res.max_cfs)
                    THEN get_latest_discharge(gauge)
                    ELSE get_latest_water_level(gauge),
                    res.min_level, res.max_level, res.min_cfs, res.max_cfs))]
    ELSE res

\* lines 132-149: check_water_level_range never raises, its status is stored
CheckWaterLevels(res, gauge) ==
    [res EXCEPT !.water_status =
        Some(check_water_level_range(
                IF use_cfs(res.min_cfs, res.max_cfs)
                THEN get_latest_discharge(gauge)
                ELSE get_latest_water_level(gauge),
                res.min_level, res.max_level, res.min_cfs, res.max_cfs))]

\* lines 151-201: current weather for today, the forecast of the target
\* date otherwise; `weather_data` is what get_weather_by_zip returned
CheckWeatherFor(res, weather_data) ==
    IF res.is_today
    THEN IF weather_data # None
         THEN [res EXCEPT
                 !.weather_status = Some(assess_paddling_conditions(weather_data)),
                 !.current_conditions = get_current_conditions(weather_data)]
         ELSE [res EXCEPT !.issues = Append(@, "Weather data unavailable")]
    ELSE IF weather_data # None
         THEN LET day_forecast ==
                      get_forecast_for_date(weather_data[1], res.target_date[1])
              IN  IF day_forecast # None
                  THEN [res EXCEPT
                          !.current_conditions =
                              Some([temperature |-> day_forecast[1].temperature,
                                    wind_speed |-> day_forecast[1].wind_speed,
                                    wind_gusts |-> day_forecast[1].wind_gusts,
                                    precipitation |-> day_forecast[1].precipitation]),
                          !.weather_status =
                              Some(assess_forecast_conditions(day_forecast[1]))]
                  ELSE [res EXCEPT !.issues =
                          Append(@, "Forecast data unavailable for target date")]
         ELSE [res EXCEPT !.issues = Append(@, "Weather forecast unavailable")]

\* the day aggregates and the current block the weather service answers with
CalmDay ==
    [temperature |-> 70, wind_speed |-> 4, wind_gusts |-> 8,
     precipitation_probability |-> 10, precipitation |-> 0]
WindyDay ==
    [temperature |-> 45, wind_speed |-> 18, wind_gusts |-> 30,
     precipitation_probability |-> 80, precipitation |-> 20]
CalmNow ==
    [temperature_2m |-> 70, wind_speed_10m |-> 4, wind_gusts_10m |-> 8,
     precipitation |-> 0]

\* an API answer whose hours cover the first `horizon` days after today
WeatherData(current, horizon, day) ==
    [current |-> current,
     hourly |-> [d \in 1..ForecastDays |-> IF d <= horizon THEN Some(day) ELSE None]]

\* catalog rows: a difficulty on either side of 3, feet bounds 0..10
RunRows ==
    [whitewater : {2, 3}, min_level : {Some(0)}, max_level : {Some(10)},
     min_cfs : {None}, max_cfs : {None}]

\* the geocoder: no coordinates, 30.0 miles from home, 30.1 miles from home
RunGeocodes == {None, Some(300), Some(301)}

\* the USGS service: a failed request, or a reading in the ideal band
RunGauges == {[kind |-> "raise", value |-> 0], [kind |-> "row", value |-> 5]}

RunParams(dates) ==
    [home_located : BOOLEAN, target_date : dates,
     max_whitewater : {None, Some(0 - 3), Some(3)},
     max_distance : {None, Some(300)}]

\* a catalog of at most MaxRivers rows and the answers of the services for it
RunCatalog(weathers) ==
    \E n \in 0..MaxRivers :
        /\ df \in [1..n -> RunRows]
        /\ services \in [1..n -> [geocode : RunGeocodes, gauge : RunGauges,
                                  weather : weathers]]

Call(service, name, day) == [service |-> service, name |-> name, day |-> day]

\* a variant of Lookups that asks the gauge before the distance filter
Lookups_GaugeBeforeFilter(stage, home_located, name, day) ==
    LET geocoding == IF home_located THEN <<Call("geocode", name, day)>> ELSE <<>>
    IN  IF stage = "whitewater" THEN <<>>
        ELSE IF stage = "distance"
        THEN geocoding \o <<Call("gauge", name, day)>>
        ELSE geocoding \o <<Call("gauge", name, day), Call("weather", name, day)>>

\* the requests of one pass of the loop body, in their order in the code: a
\* pass that leaves at the whitewater filter makes none, one that leaves at
\* the distance filter has geocoded the river's ZIP (when the home ZIP has
\* coordinates), the others go on to the gauge and the weather service
Lookups(stage, home_located, name, day) ==
    LET geocoding == IF home_located THEN <<Call("geocode", name, day)>> ELSE <<>>
    IN  IF stage = "whitewater" THEN <<>>
        ELSE IF stage = "distance" THEN geocoding
        ELSE geocoding \o <<Call("gauge", name, day), Call("weather", name, day)>>

\* a variant of Appended that drops a river whose gauge gave no reading
Appended_OnlyWithReading(list, res) ==
    IF res.water_status[1].current_level = None THEN list ELSE Append(list, res)

\* results.append(result)
Appended(list, res) == Append(list, res)

InitRun ==
    /\ RowIdle
    /\ arg = NoArg
    /\ ret = NoArg
    /\ pc \in {"check_rivers_today", "evaluate_all_rivers"}
    /\ RunCatalog({None, Some(WeatherData(CalmNow, 0, CalmDay)),
                   Some(WeatherData(CalmNow, ForecastDays, CalmDay))})
    /\ params \in RunParams({None, Some(2), Some(BadDate)})
    /\ index = 0
    /\ results = <<>>
    /\ excluded_count = 0
    /\ calls = <<>>
    /\ day_offset = 0
    /\ day_results = <<>>
    /\ daily_forecasts = <<>>

\* check_rivers_today, lines 470-504: the date is parsed for the header, then
\* evaluate_all_rivers is called; strptime's ValueError is not caught
CheckRiversToday ==
    /\ pc = "check_rivers_today"
    /\ pc' = IF strptime_raises(params.target_date) THEN "rejected"
             ELSE "evaluate_all_rivers"
    /\ UNCHANGED <<river, latest, result, arg, ret, runVars>>

\* lines 30-56: the date is parsed (ValueError for a string that is no date),
\* then the lists are emptied and the home ZIP geocoded
StartRun ==
    /\ pc = "evaluate_all_rivers"
    /\ IF strptime_raises(params.target_date)
       THEN /\ pc' = "rejected"
            /\ UNCHANGED <<results, excluded_count, calls, index>>
       ELSE /\ results' = <<>>
            /\ excluded_count' = 0
            /\ calls' = Append(calls, Call("geocode", 0, 0))
            /\ index' = 1
            /\ pc' = "rows"
    /\ UNCHANGED <<river, latest, result, arg, ret, df, services, params,
                   day_offset, day_results, daily_forecasts>>

\* lines 58-210: one pass of the loop body, for the row at `index`
EvaluateRow ==
    /\ pc = "rows"
    /\ index <= Len(df)
    /\ LET row == df[index]
           answers == services[index]
           located == [NewResult(row, index, params.target_date) EXCEPT
                         !.distance_miles =
                             RowDistance(params.home_located, answers.geocode)]
           checked == CheckWeatherFor(CheckWaterLevels(located, answers.gauge),
                                      answers.weather)
       IN  IF WhitewaterSkips(params.max_whitewater, row.whitewater)
           THEN /\ excluded_count' = excluded_count + 1
                /\ calls' = calls \o Lookups("whitewater", params.home_located, index, 0)
                /\ UNCHANGED <<results, pc>>
           ELSE IF DistanceSkips(params.max_distance, located.distance_miles)
           THEN /\ excluded_count' = excluded_count + 1
                /\ calls' = calls \o Lookups("distance", params.home_located, index, 0)
                /\ UNCHANGED <<results, pc>>
           ELSE IF ScoreRaises(checked)
           THEN /\ pc' = "raised"
                /\ calls' = calls \o Lookups("end", params.home_located, index, 0)
                /\ UNCHANGED <<results, excluded_count>>
           ELSE /\ results' = Appended(results,
                     [checked EXCEPT
                        !.overall_score = calculate_river_score(checked),
                        !.recommendation = get_recommendation(
                            [checked EXCEPT !.overall_score =
                                              calculate_river_score(checked)])])
                /\ calls' = calls \o Lookups("end", params.home_located, index, 0)
                /\ UNCHANGED <<excluded_count, pc>>
    /\ index' = index + 1
    /\ UNCHANGED <<river, latest, result, arg, ret, df, services, params,
                   day_offset, day_results, daily_forecasts>>

\* lines 212-218: the results are sorted and returned
ReturnRun ==
    /\ pc = "rows"
    /\ index > Len(df)
    /\ results' = sort_reverse(results, "overall_score")
    /\ pc' = "returned"
    /\ UNCHANGED <<river, latest, result, arg, ret, df, services, params, index,
                   excluded_count, calls, day_offset, day_results, daily_forecasts>>

NextRun == CheckRiversToday \/ StartRun \/ EvaluateRow \/ ReturnRun

SpecRun == InitRun /\ [][NextRun]_vars

----------------------------------------------------------------------------
(* A run of get_weekly_river_forecast over a catalog.  A day_score is in   *)
(* two-hundredths of a point: the mean of two scores in hundredths is      *)
(* their sum in two-hundredths.                                            *)

\* calculate_weekly_river_score, water part: any stored status is read
\* the weekly water component taken against the feet bounds whatever the metric
WeeklyWaterScore_FeetOnly(river_result) ==
    IF river_result.water_status = None THEN Frac(0, 1)
    ELSE LET current_level == river_result.water_status[1].current_level
             min_val == river_result.min_level
             max_val == river_result.max_level
         IN  IF current_level = None THEN Frac(0, 1)
             ELSE IF min_val = None \/ max_val = None THEN Frac(0, 1)
             ELSE WaterPoints(min_val[1], max_val[1], current_level[1])

WeeklyWaterScore(river_result) ==
    IF river_result.water_status = None THEN Frac(0, 1)
    ELSE LET water_status == river_result.water_status[1]
             current_level == water_status.current_level
             metric == water_status.metric
             min_val == IF metric = "cfs" THEN river_result.min_cfs
                                          ELSE river_result.min_level
             max_val == IF metric = "cfs" THEN river_result.max_cfs
                                          ELSE river_result.max_level
         IN  IF current_level = None THEN Frac(0, 1)
             ELSE IF min_val = None \/ max_val = None THEN Frac(0, 1)
             ELSE WaterPoints(min_val[1], max_val[1], current_level[1])

WeeklyScoreRaises(river_result) == WeeklyWaterScore(river_result).d = 0

\* round(score + distance_bonus, 2), in hundredths; the wind is the forecast's
calculate_weekly_river_score(river_result) ==
    LET water == WeeklyWaterScore(river_result)
        rest == 100 * WindScore(river_result.day_forecast)
                + DistanceBonus(river_result.distance_miles)
    IN  Round(100 * water.n + rest * water.d, water.d)

\* the river_result dict of a row before any lookup
NewRiverResult(row, name) ==
    [name |-> name, min_level |-> row.min_level, max_level |-> row.max_level,
     min_cfs |-> row.min_cfs, max_cfs |-> row.max_cfs,
     whitewater |-> row.whitewater,
     distance_miles |-> None, water_status |-> None, weather_status |-> None,
     current_conditions |-> None, day_forecast |-> None, score |-> 0]

\* lines 655-687: does the row `continue` for want of a forecast of the date
ForecastMissing(weather_data, target_date) ==
    \/ weather_data = None
    \/ get_forecast_for_date(weather_data[1], target_date) = None

\* lines 659-677
StoreForecast(river_result, day_forecast) ==
    [river_result EXCEPT
        !.day_forecast = Some(day_forecast),
        !.current_conditions =
            Some([temperature |-> day_forecast.temperature,
                  wind_speed |-> day_forecast.wind_speed,
                  wind_gusts |-> day_forecast.wind_gusts,
                  precipitation |-> day_forecast.precipitation]),
        !.weather_status = Some(assess_forecast_conditions(day_forecast))]

\* lines 701-707 on the sorted list of the day
\* the day score taken over the best and the worst river of the day
DayScore_FirstAndLast(sorted) ==
    IF Len(sorted) >= 2 THEN sorted[1].score + sorted[Len(sorted)].score
    ELSE IF Len(sorted) = 1 THEN 2 * sorted[1].score
    ELSE 0

DayScore(sorted) ==
    IF Len(sorted) >= 2 THEN sorted[1].score + sorted[2].score
    ELSE IF Len(sorted) = 1 THEN 2 * sorted[1].score
    ELSE 0

\* a day is recorded only when some river qualified on it
AppendDay_OnlyWithRivers(forecasts, date, sorted) ==
    IF sorted = <<>> THEN forecasts
    ELSE Append(forecasts, [date |-> date, day_score |-> DayScore(sorted),
                            rivers |-> sorted])

\* lines 709-715: the day's record joins the list, with or without rivers
AppendDay(forecasts, date, sorted) ==
    Append(forecasts, [date |-> date, day_score |-> DayScore(sorted),
                       rivers |-> sorted])

InitWeek ==
    /\ RowIdle
    /\ arg = NoArg
    /\ ret = NoArg
    /\ pc = "get_weekly_river_forecast"
    /\ RunCatalog({None, Some(WeatherData(CalmNow, 3, WindyDay)),
                   Some(WeatherData(CalmNow, ForecastDays, CalmDay))})
    /\ params \in RunParams({None})
    /\ index = 0
    /\ results = <<>>
    /\ excluded_count = 0
    /\ calls = <<>>
    /\ day_offset = 0
    /\ day_results = <<>>
    /\ daily_forecasts = <<>>

\* lines 564-577: the home ZIP is geocoded and the first day begun
StartWeek ==
    /\ pc = "get_weekly_river_forecast"
    /\ daily_forecasts' = <<>>
    /\ calls' = Append(calls, Call("geocode", 0, 0))
    /\ day_offset' = 1
    /\ day_results' = <<>>
    /\ excluded_count' = 0
    /\ index' = 1
    /\ pc' = "day_rows"
    /\ UNCHANGED <<river, latest, result, arg, ret, df, services, params, results>>

\* lines 579-695: one pass of the inner loop body, for the row at `index`
EvaluateDayRow ==
    /\ pc = "day_rows"
    /\ index <= Len(df)
    /\ LET row == df[index]
           answers == services[index]
           located == [NewRiverResult(row, index) EXCEPT
                         !.distance_miles =
                             RowDistance(params.home_located, answers.geocode)]
           watered == CheckWaterLevels(located, answers.gauge)
       IN  IF WeeklyWhitewaterSkips(params.max_whitewater, row.whitewater)
           THEN /\ excluded_count' = excluded_count + 1
                /\ calls' = calls \o Lookups("whitewater", params.home_located,
                                             index, day_offset)
                /\ UNCHANGED <<day_results, pc>>
           ELSE IF DistanceSkips(params.max_distance, located.distance_miles)
           THEN /\ excluded_count' = excluded_count + 1
                /\ calls' = calls \o Lookups("distance", params.home_located,
                                             index, day_offset)
                /\ UNCHANGED <<day_results, pc>>
           ELSE IF ForecastMissing(answers.weather, day_offset)
           THEN /\ calls' = calls \o Lookups("end", params.home_located,
                                             index, day_offset)
                /\ UNCHANGED <<day_results, excluded_count, pc>>
           ELSE LET forecast == StoreForecast(watered,
                        get_forecast_for_date(answers.weather[1], day_offset)[1])
                IN  /\ calls' = calls \o Lookups("end", params.home_located,
                                                 index, day_offset)
                    /\ IF WeeklyScoreRaises(forecast)
                       THEN /\ pc' = "raised"
                            /\ UNCHANGED <<day_results, excluded_count>>
                       ELSE /\ day_results' = Appended(day_results,
                                 [forecast EXCEPT !.score =
                                     calculate_weekly_river_score(forecast)])
                            /\ UNCHANGED <<excluded_count, pc>>
    /\ index' = index + 1
    /\ UNCHANGED <<river, latest, result, arg, ret, df, services, params, results,
                   day_offset, daily_forecasts>>

\* lines 696-715: the day's list is sorted, scored and appended; next day
EndDay ==
    /\ pc = "day_rows"
    /\ index > Len(df)
    /\ daily_forecasts' = AppendDay(daily_forecasts, day_offset,
                                    sort_reverse(day_results, "score"))
    /\ IF day_offset < ForecastDays
       THEN /\ day_offset' = day_offset + 1
            /\ day_results' = <<>>
            /\ excluded_count' = 0
            /\ index' = 1
            /\ pc' = "day_rows"
       ELSE /\ pc' = "days_done"
            /\ UNCHANGED <<day_offset, day_results, excluded_count, index>>
    /\ UNCHANGED <<river, latest, result, arg, ret, df, services, params, results,
                   calls>>

\* lines 717-721: the days are sorted by day_score and returned
ReturnWeek ==
    /\ pc = "days_done"
    /\ daily_forecasts' = sort_reverse(daily_forecasts, "day_score")
    /\ pc' = "returned"
    /\ UNCHANGED <<river, latest, result, arg, ret, df, services, params, index,
                   results, excluded_count, calls, day_offset, day_results>>

NextWeek == StartWeek \/ EvaluateDayRow \/ EndDay \/ ReturnWeek

SpecWeek == InitWeek /\ [][NextWeek]_vars

\* a single-date run or a weekly run
InitRuns == InitRun \/ InitWeek

NextRuns == NextRun \/ NextWeek

SpecRuns == InitRuns /\ [][NextRuns]_vars

(***************************************************************************)
(* The close of one day of the weekly forecast, taken alone (lines 696-715) *)
(***************************************************************************)

MaxDayRivers == 3

\* scores of the rivers that qualified on one day, in hundredths
DayRiverScores == {0, 4230, 6050, MaxScore}

\* the day's list as the inner loop leaves it: catalog order, any scores
DayLists ==
    UNION {[1..len -> DayRiverScores] : len \in 0..MaxDayRivers}

DayRivers(scores) == [j \in 1..Len(scores) |-> [name |-> j, score |-> scores[j]]]

InitDayScore ==
    /\ FunctionIdle
    /\ pc = "close_day"
    /\ arg \in {DayRivers(scores) : scores \in DayLists}
    /\ ret = NoArg

\* lines 696-715: the list is sorted by score and the day score derived
ApplyDayScore ==
    /\ pc = "close_day"
    /\ LET sorted == sort_reverse(arg, "score")
       IN  ret' = [day_score |-> DayScore(sorted), rivers |-> sorted]
    /\ pc' = "done"
    /\ UNCHANGED <<river, latest, result, arg, runVars>>

SpecDayScore == InitDayScore /\ [][ApplyDayScore]_vars

(***************************************************************************)
(* pa_river_functions.py: difficulty classes.  A class string is the       *)
(* sequence of its characters; a missing cell (NaN) is None.               *)
(***************************************************************************)

MaxClassLen == 6

ClassChars == {"A", "C", "I", "V", "-", " "}

ClassStrings == UNION {[1..len -> ClassChars] : len \in 0..MaxClassLen}

\* class_map, lines 23-26, as the pairs of a key and its value
class_map ==
    {<<(<<"A">>), 0>>, <<(<<"B">>), 0>>, <<(<<"C">>), 0>>,
     <<(<<"I">>), 1>>, <<(<<"I", "I">>), 2>>, <<(<<"I", "I", "I">>), 3>>,
     <<(<<"I", "V">>), 4>>, <<(<<"V">>), 5>>, <<(<<"V", "I">>), 6>>}

\* class_map.get(key): the value, or None for a key the map does not hold
class_map_get(key) ==
    IF \E entry \in class_map : entry[1] = key
    THEN Some((CHOOSE entry \in class_map : entry[1] = key)[2])
    ELSE None

\* str.strip(): leading and trailing blanks removed
RECURSIVE strip(_)
strip(str) ==
    IF str = <<>> THEN str
    ELSE IF Head(str) = " " THEN strip(Tail(str))
    ELSE IF str[Len(str)] = " " THEN strip(SubSeq(str, 1, Len(str) - 1))
    ELSE str

\* '-' in str
has_hyphen(str) == \E at \in 1..Len(str) : str[at] = "-"

\* the text before the first hyphen, or all of it
before_hyphen(str) ==
    IF has_hyphen(str)
    THEN SubSeq(str, 1, (CHOOSE at \in 1..Len(str) :
                            /\ str[at] = "-"
                            /\ \A b \in 1..(at - 1) : str[b] # "-") - 1)
    ELSE str

\* the text after the first hyphen
after_hyphen(str) == SubSeq(str, Len(before_hyphen(str)) + 2, Len(str))

\* str.split('-'): the list of the parts between the hyphens
RECURSIVE split(_)
split(str) ==
    IF has_hyphen(str) THEN <<before_hyphen(str)>> \o split(after_hyphen(str))
    ELSE <<str>>

\* lines 4-41: (min_class, max_class) of a class string
parse_class_range(class_str) ==
    IF class_str = None \/ class_str = Some(<<>>)
    THEN [min_class |-> None, max_class |-> None]
    ELSE LET stripped == strip(class_str[1])
         IN  IF has_hyphen(stripped)
             THEN LET parts == split(stripped)
                  IN  [min_class |-> class_map_get(strip(parts[1])),
                       max_class |-> class_map_get(strip(parts[2]))]
             ELSE [min_class |-> class_map_get(stripped),
                   max_class |-> class_map_get(stripped)]

InitClass ==
    /\ FunctionIdle
    /\ pc = "parse_class_range"
    /\ arg \in {None} \cup {Some(str) : str \in ClassStrings}
    /\ ret = NoArg

ApplyClass ==
    /\ pc = "parse_class_range"
    /\ ret' = parse_class_range(arg)
    /\ pc' = "done"
    /\ UNCHANGED <<river, latest, result, arg, runVars>>

SpecClass == InitClass /\ [][ApplyClass]_vars

(***************************************************************************)
(* pa_river_functions.py: the class filter over a catalog                  *)
(***************************************************************************)

\* the 'Class' cells of the catalogs filtered: missing, empty, a bare token,
\* hyphenated pairs, a pair lacking its second token
ClassCells ==
    {None, Some(<<>>), Some(<<"A">>), Some(<<"C", "-", "I">>),
     Some(<<"I", "I", "I", "-", "I", "V">>), Some(<<"I", "I", "-">>),
     Some(<<"V", "I">>)}

ClassCatalogs ==
    UNION {[1..len -> [Name : {0}, Class : ClassCells]] : len \in 0..MaxRivers}

\* the rows carry their position as their name
Named(catalog) == [j \in 1..Len(catalog) |-> [catalog[j] EXCEPT !.Name = j]]

ClassRanges == [min_class : 0..MaxWhitewater, max_class : 0..MaxWhitewater]

\* a row matches when its interval lies inside the target interval
matches_criteria_Within(class_str, class_range) ==
    LET parsed == parse_class_range(class_str)
    IN  /\ parsed.min_class # None
        /\ parsed.max_class # None
        /\ parsed.min_class[1] >= class_range.min_class
        /\ parsed.max_class[1] <= class_range.max_class

\* lines 63-73: whether a row's class overlaps the target interval
matches_criteria(class_str, class_range) ==
    LET parsed == parse_class_range(class_str)
    IN  IF parsed.min_class = None \/ parsed.max_class = None THEN FALSE
        ELSE IF \/ parsed.max_class[1] < class_range.min_class
                \/ parsed.min_class[1] > class_range.max_class
        THEN FALSE
        ELSE TRUE

\* lines 43-76: mask = df['Class'].apply(matches_criteria); df[mask]
river_class(catalog, class_range) ==
    LET mask == [j \in 1..Len(catalog) |->
                    matches_criteria(catalog[j].Class, class_range)]
        RECURSIVE masked(_)
        masked(upto) ==
            IF upto = 0 THEN <<>>
            ELSE IF mask[upto] THEN Append(masked(upto - 1), catalog[upto])
            ELSE masked(upto - 1)
    IN  masked(Len(catalog))

InitRiverClass ==
    /\ RowIdle
    /\ pc = "river_class"
    /\ df \in {Named(catalog) : catalog \in ClassCatalogs}
    /\ arg \in ClassRanges
    /\ ret = NoArg
    /\ services = <<>>
    /\ params = NoArg
    /\ index = 0
    /\ results = <<>>
    /\ excluded_count = 0
    /\ calls = <<>>
    /\ day_offset = 0
    /\ day_results = <<>>
    /\ daily_forecasts = <<>>

\* the catalog is filtered; boolean indexing builds a new frame
ApplyRiverClass ==
    /\ pc = "river_class"
    /\ ret' = river_class(df, arg)
    /\ pc' = "filtered"
    /\ UNCHANGED <<river, latest, result, arg, runVars>>

\* the filtered frame is filtered again with the same interval
ApplyRiverClassAgain ==
    /\ pc = "filtered"
    /\ ret' = river_class(ret, arg)
    /\ pc' = "filtered_twice"
    /\ UNCHANGED <<river, latest, result, arg, runVars>>

NextRiverClass == ApplyRiverClass \/ ApplyRiverClassAgain

SpecRiverClass == InitRiverClass /\ [][NextRiverClass]_vars

(***************************************************************************)
(* The presets of the weekly planner (lines 927-961), taken alone          *)
(***************************************************************************)

\* the filters whitewater_forecast passes to get_weekly_river_forecast
whitewater_forecast == [max_whitewater |-> Some(0 - 3), max_distance |-> None]

\* the casual preset capped at 30 miles whatever the proximity
casual_forecast_AlwaysClose(proximity) ==
    [max_whitewater |-> Some(3), max_distance |-> Some(300)]

\* the filters casual_forecast passes: 30 miles if proximity == "close"
casual_forecast(proximity) ==
    [max_whitewater |-> Some(3),
     max_distance |-> IF proximity = Some("close") THEN Some(300) ELSE None]

Presets == {"whitewater_forecast", "casual_forecast"}

Proximities == {None, Some("close"), Some("far")}

\* does the weekly planner list a row under the filters of a preset
PresetLists(filters, row) ==
    /\ ~WeeklyWhitewaterSkips(filters.max_whitewater, row.whitewater)
    /\ ~DistanceSkips(filters.max_distance, row.distance_miles)

InitPreset ==
    /\ FunctionIdle
    /\ pc = "preset"
    /\ arg \in [preset : Presets, proximity : Proximities,
                row : [whitewater : Whitewaters,
                       distance_miles : {None, Some(300), Some(301)}]]
    /\ ret = NoArg

\* the preset hands its filters to the weekly planner, which applies them
ApplyPreset ==
    /\ pc = "preset"
    /\ LET filters == IF arg.preset = "whitewater_forecast"
                      THEN whitewater_forecast
                      ELSE casual_forecast(arg.proximity)
       IN  ret' = [filters |-> filters, listed |-> PresetLists(filters, arg.row)]
    /\ pc' = "done"
    /\ UNCHANGED <<river, latest, result, arg, runVars>>

SpecPreset == InitPreset /\ [][ApplyPreset]_vars

(***************************************************************************)
(* One river and one gauge answer, evaluated for today, for a later date   *)
(* and for a day of the weekly run (lines 132-149 and 641-653)             *)
(***************************************************************************)

\* a catalog row with the given bounds
BoundsRow(bounds) ==
    [whitewater |-> 1, min_level |-> bounds.min_level,
     max_level |-> bounds.max_level, min_cfs |-> bounds.min_cfs,
     max_cfs |-> bounds.max_cfs]

InitDates ==
    /\ FunctionIdle
    /\ pc = "check_water_levels"
    /\ arg \in [bounds : Rivers, outcome : GaugeOutcomes(0..(MaxLevel + 1)),
                date : 1..ForecastDays]
    /\ ret = NoArg

\* the water step of evaluate_all_rivers for today and for the date, and of
\* get_weekly_river_forecast for the day, each with its water component
ApplyDates ==
    /\ pc = "check_water_levels"
    /\ LET row == BoundsRow(arg.bounds)
           today == CheckWaterLevels(NewResult(row, 1, None), arg.outcome)
           dated == CheckWaterLevels(NewResult(row, 1, Some(arg.date)),
                                     arg.outcome)
           weekly == CheckWaterLevels(NewRiverResult(row, 1), arg.outcome)
       IN  ret' = [today |-> [water_status |-> today.water_status,
                              water |-> WaterScore(today)],
                   dated |-> [water_status |-> dated.water_status,
                              water |-> WaterScore(dated)],
                   weekly |-> [water_status |-> weekly.water_status,
                               water |-> WeeklyWaterScore(weekly)]]
    /\ pc' = "done"
    /\ UNCHANGED <<river, latest, result, arg, runVars>>

SpecDates == InitDates /\ [][ApplyDates]_vars

(***************************************************************************)
(* The two scoring functions on one river (lines 272-365 and 723-794)      *)
(***************************************************************************)

\* the wind of the sample scored: none, calm, strong with gusts
AgreeSamples ==
    {None, Some([wind_speed |-> 4, wind_gusts |-> 8]),
     Some([wind_speed |-> 18, wind_gusts |-> 30])}

AgreeDistances == {None, Some(300), Some(2001)}

InitAgree ==
    /\ FunctionIdle
    /\ pc = "score"
    /\ arg \in [bounds : Rivers, outcome : GaugeOutcomes(0..(MaxLevel + 1)),
                sample : AgreeSamples, distance_miles : AgreeDistances]
    /\ ret = NoArg

\* the record of evaluate_all_rivers and the record of the weekly planner are
\* built from the same water status, sample and distance, and each is scored
\* by its own function
ApplyAgree ==
    /\ pc = "score"
    /\ LET row == BoundsRow(arg.bounds)
           single == [CheckWaterLevels(NewResult(row, 1, None), arg.outcome)
                        EXCEPT !.current_conditions = arg.sample,
                               !.distance_miles = arg.distance_miles]
           weekly == [CheckWaterLevels(NewRiverResult(row, 1), arg.outcome)
                        EXCEPT !.day_forecast = arg.sample,
                               !.distance_miles = arg.distance_miles]
       IN  ret' = [water_status |-> single.water_status,
                   single |-> IF ScoreRaises(single) THEN None
                              ELSE Some(calculate_river_score(single)),
                   weekly |-> IF WeeklyScoreRaises(weekly) THEN None
                              ELSE Some(calculate_weekly_river_score(weekly))]
    /\ pc' = "done"
    /\ UNCHANGED <<river, latest, result, arg, runVars>>

SpecAgree == InitAgree /\ [][ApplyAgree]_vars

----------------------------------------------------------------------------
(* Properties *)

\* the row has been classified by check_water_level_range
Classified == pc \in {"weather", "score", "done"}

\* the bounds of the metric the catalog row makes active
ActiveMetric == IF use_cfs(river.min_cfs, river.max_cfs) THEN "cfs" ELSE "feet"
ActiveMin == IF ActiveMetric = "cfs" THEN river.min_cfs ELSE river.min_level
ActiveMax == IF ActiveMetric = "cfs" THEN river.max_cfs ELSE river.max_level

\* the tier the row would get at distance d, everything else the same
TierAt(d) ==
    get_recommendation([result EXCEPT !.overall_score =
        calculate_river_score([result EXCEPT !.distance_miles = d])])

\* C1: the distance tiebreaker never changes the recommendation tier: for a
\* scored row (fixed water status and weather sample), get_recommendation
\* gives the same tier at every distance, and at no distance.
C1_TierIndependentOfDistance ==
    pc = "done" => \A d \in RowDistances : TierAt(d) = result.recommendation

\* C2: calculate_river_score never faults and its score lies in [0, 100.99],
\* for every water status (degenerate range included), sample and distance.
C2_ScoreDefinedInRange ==
    /\ pc # "raised"
    /\ pc = "done" => result.overall_score >= 0 /\ result.overall_score <= 10099

\* the degenerate range min = max with the reading in it, scored 100.99
C2_Witness ==
    /\ pc = "done"
    /\ ActiveMin # None /\ ActiveMin = ActiveMax
    /\ latest # None /\ latest[1].level = ActiveMin[1]
    /\ result.overall_score = 10099

\* C3: for bounds min < max the water component is 5 above max, 0 below min,
\* 60 on [ideal_min, max] and 20 + 25 * (reading - min) / (ideal_min - min)
\* on [min, ideal_min), where it is 20 at min and stays below 45.
C3_WaterComponent ==
    (Classified /\ latest # None /\ ActiveMin # None /\ ActiveMax # None
       /\ ActiveMin[1] < ActiveMax[1]) =>
        LET lo == ActiveMin[1]
            hi == ActiveMax[1]
            reading == latest[1].level
            water == WaterScore(result)
            ideal10 == 10 * lo + 3 * (hi - lo)
        IN  /\ water.d > 0
            /\ reading > hi => water.n = 5 * water.d
            /\ reading < lo => water.n = 0
            /\ (10 * reading >= ideal10 /\ reading <= hi) => water.n = 60 * water.d
            /\ (lo <= reading /\ 10 * reading < ideal10) =>
                  /\ water.n * 3 * (hi - lo)
                       = (20 * 3 * (hi - lo) + 250 * (reading - lo)) * water.d
                  /\ water.n < 45 * water.d
            /\ reading = lo => water.n = 20 * water.d
            /\ (10 * reading = ideal10 \/ reading = hi) => water.n = 60 * water.d

\* a reading exactly at ideal_min, strictly between min and max, gets 60
C3_Witness ==
    /\ Classified /\ latest # None /\ ActiveMin # None /\ ActiveMax # None
    /\ ActiveMin[1] < latest[1].level /\ latest[1].level < ActiveMax[1]
    /\ 10 * latest[1].level = 10 * ActiveMin[1] + 3 * (ActiveMax[1] - ActiveMin[1])
    /\ WaterScore(result) = Frac(60, 1)

\* the bounds calculate_river_score reads for the metric of the status
StatusMin ==
    IF result.water_status[1].metric = "cfs" THEN result.min_cfs ELSE result.min_level
StatusMax ==
    IF result.water_status[1].metric = "cfs" THEN result.max_cfs ELSE result.max_level

\* C4: with status error, no reading, or an absent bound of the active metric
\* the water component is 0: the score is wind component + distance bonus.
C4_WaterSkipped ==
    (pc = "done"
       /\ \/ result.water_status[1].status = "error"
          \/ result.water_status[1].current_level = None
          \/ StatusMin = None
          \/ StatusMax = None) =>
        result.overall_score
          = 100 * WindScore(result.current_conditions)
              + DistanceBonus(result.distance_miles)

\* a reading below the minimum of a range without maximum, scored with wind
C4_Witness ==
    /\ pc = "done"
    /\ result.water_status[1].status = "too_low"
    /\ result.water_status[1].current_level # None
    /\ StatusMin # None /\ StatusMax = None
    /\ result.current_conditions # None
    /\ result.overall_score = 100 * WindScore(result.current_conditions)
                                + DistanceBonus(result.distance_miles)

----------------------------------------------------------------------------
(* Properties of the wind component (SpecWind) *)

\* the wind bands and the gust penalty as the contract states them
WindBand(wind_speed) ==
    CASE wind_speed <= 5 -> 40
      [] wind_speed > 5 /\ wind_speed <= 10 -> 35
      [] wind_speed > 10 /\ wind_speed <= 15 -> 20
      [] wind_speed > 15 /\ wind_speed <= 20 -> 10
      [] wind_speed > 20 -> 0

Penalised(sample) == sample.wind_gusts > sample.wind_speed + 10

\* C5: with a sample the wind component is 40 / 35 / 20 / 10 / 0 by wind
\* speed band, less 10 exactly when gust > wind_speed + 10, floored at 0, so
\* it lies in [0, 40]; without a sample it is 0.
C5_WindComponent ==
    pc = "done" =>
        \A i \in 1..2 :
            IF arg[i] = None THEN ret[i] = 0
            ELSE LET band == WindBand(arg[i][1].wind_speed)
                 IN  /\ Penalised(arg[i][1]) =>
                            ret[i] = IF band >= 10 THEN band - 10 ELSE 0
                     /\ ~Penalised(arg[i][1]) => ret[i] = band
                     /\ ret[i] >= 0 /\ ret[i] <= 40

\* a penalised sample in the 0 band: the penalty is floored at 0
C5_Witness ==
    /\ pc = "done" /\ arg[1] # None
    /\ arg[1][1].wind_speed > 20 /\ Penalised(arg[1][1])
    /\ ret[1] = 0

\* C6 as claimed: for every gust speed and wind speeds w1 <= w2 the wind
\* component, gust penalty included, of w1 is at least the one of w2, and
\* the component is never below 0.
C6_NonIncreasingInWind ==
    (pc = "done" /\ arg[1] # None) =>
        /\ ret[1] >= 0 /\ ret[2] >= 0
        /\ arg[1][1].wind_speed <= arg[2][1].wind_speed => ret[1] >= ret[2]

\* C6 as amended: for a gust speed and wind speeds w1 <= w2, the component
\* of w1 is at least the one of w2 when the gust penalty applies to both
\* samples or to neither, and at least the one of w2 less 10 otherwise; the
\* component is never below 0.
C6_NonIncreasingUnderEqualPenalty ==
    (pc = "done" /\ arg[1] # None) =>
        /\ ret[1] >= 0 /\ ret[2] >= 0
        /\ arg[1][1].wind_speed <= arg[2][1].wind_speed =>
              /\ ret[1] >= ret[2] - 10
              /\ Penalised(arg[1][1]) = Penalised(arg[2][1]) => ret[1] >= ret[2]

\* gust 16: wind 5 is penalised to 30, wind 6 is not and keeps 35
C6_Witness ==
    /\ pc = "done" /\ arg[1] # None
    /\ arg[1][1].wind_gusts = 16
    /\ arg[1][1].wind_speed = 5 /\ arg[2][1].wind_speed = 6
    /\ ret = <<30, 35>>

----------------------------------------------------------------------------
(* Properties of the distance bonus (SpecDistance) *)

\* the distance bands as the contract states them, in hundredths and tenths
DistanceBand(d) ==
    CASE d <= 300 -> 99
      [] d > 300 /\ d <= 600 -> 80
      [] d > 600 /\ d <= 1000 -> 60
      [] d > 1000 /\ d <= 1500 -> 40
      [] d > 1500 /\ d <= 2000 -> 20
      [] d > 2000 -> 1

----------------------------------------------------------------------------
(* Properties of the recommendation tier (SpecTier) *)

\* the tiers from worst to best
TierRank(tier) ==
    CASE tier = "Avoid" -> 0
      [] tier = "Poor conditions" -> 1
      [] tier = "Marginal conditions" -> 2
      [] tier = "Good option" -> 3
      [] tier = "Excellent choice!" -> 4
      [] tier = "Perfect conditions!" -> 5

\* the tier the contract gives to the truncated score n
TierOf(n) ==
    CASE n >= 85 -> "Perfect conditions!"
      [] n >= 70 /\ n < 85 -> "Excellent choice!"
      [] n >= 50 /\ n < 70 -> "Good option"
      [] n >= 30 /\ n < 50 -> "Marginal conditions"
      [] n >= 15 /\ n < 30 -> "Poor conditions"
      [] n < 15 -> "Avoid"

\* C8: get_recommendation maps the truncated integer part of the score to
\* its tier, so the tier is monotone in the score, 100.99 is Perfect
\* conditions and 0.50 is Avoid.
C8_Recommendation ==
    pc = "done" =>
        /\ \A i \in 1..2 : ret[i] = TierOf(arg[i] \div 100)
        /\ arg[1] <= arg[2] => TierRank(ret[1]) <= TierRank(ret[2])
        /\ arg[1] = 10099 => ret[1] = "Perfect conditions!"
        /\ arg[1] = 50 => ret[1] = "Avoid"

\* the scores 0.50 and 100.99 with their tiers
C8_Witness ==
    /\ pc = "done"
    /\ arg = <<50, 10099>>
    /\ ret = <<"Avoid", "Perfect conditions!">>

----------------------------------------------------------------------------
(* Properties of the classification (Spec) *)

\* C9: check_water_level_range classifies a reading against the active
\* bounds [min, max], min <= max, into exactly one status: no_data (reading
\* and timestamp absent) without a reading, good when min <= reading <= max,
\* too_low when reading < min, too_high when reading > max.
C9_Classification ==
    Classified =>
        LET water_status == result.water_status[1]
        IN  /\ latest = None =>
                  /\ water_status.status = "no_data"
                  /\ water_status.current_level = None
                  /\ water_status.timestamp = None
            /\ (latest # None /\ ActiveMin # None /\ ActiveMax # None
                  /\ ActiveMin[1] <= ActiveMax[1]) =>
                  LET reading == latest[1].level
                  IN  /\ water_status.status \in {"good", "too_low", "too_high"}
                      /\ water_status.status = "good"
                           <=> (ActiveMin[1] <= reading /\ reading <= ActiveMax[1])
                      /\ water_status.status = "too_low" <=> reading < ActiveMin[1]
                      /\ water_status.status = "too_high" <=> reading > ActiveMax[1]
                      /\ water_status.current_level = Some(reading)

\* a reading equal to the maximum of a proper range is good
C9_Witness ==
    /\ Classified /\ latest # None /\ ActiveMin # None /\ ActiveMax # None
    /\ ActiveMin[1] < ActiveMax[1]
    /\ latest[1].level = ActiveMax[1]
    /\ result.water_status[1].status = "good"

\* C10: one metric is active per classification: flow reading and flow
\* bounds iff both flow bounds are present, feet otherwise; the status names
\* the active metric and echoes the bounds of that metric only, and the
\* water component of the score is computed with the bounds of that metric.
C10_OneActiveMetric ==
    Classified =>
        LET water_status == result.water_status[1]
        IN  /\ latest # None => latest[1].metric = ActiveMetric
            /\ water_status.metric = ActiveMetric
            /\ ActiveMetric = "cfs" =>
                  /\ water_status.min_cfs = river.min_cfs
                  /\ water_status.max_cfs = river.max_cfs
                  /\ water_status.min_level = None
                  /\ water_status.max_level = None
            /\ ActiveMetric = "feet" =>
                  /\ water_status.min_level = river.min_level
                  /\ water_status.max_level = river.max_level
                  /\ water_status.min_cfs = None
                  /\ water_status.max_cfs = None
            /\ (water_status.current_level # None
                  /\ ActiveMin # None /\ ActiveMax # None) =>
                  WaterScore(result)
                    = WaterPoints(ActiveMin[1], ActiveMax[1],
                                  water_status.current_level[1])

\* the bounds check_water_level_range compares the drawn reading with
GaugeMin ==
    IF use_cfs(arg.bounds.min_cfs, arg.bounds.max_cfs)
    THEN arg.bounds.min_cfs ELSE arg.bounds.min_level
GaugeMax ==
    IF use_cfs(arg.bounds.min_cfs, arg.bounds.max_cfs)
    THEN arg.bounds.max_cfs ELSE arg.bounds.max_level

\* C11: check_water_level_range never raises: for every answer of the gauge
\* (a reading, no reading, a raised failure) and every bounds configuration
\* it returns a status record, and a failure while obtaining the reading or
\* while comparing it gives status error with the failure message in the
\* message field and reading and timestamp absent.
C11_FailureIsError ==
    pc = "done" =>
        /\ ret.status \in {"good", "too_low", "too_high", "no_data", "error"}
        /\ (\/ arg.outcome.kind = "raise"
            \/ (arg.outcome.kind = "row"
                  /\ RangeRaises(GaugeMin, arg.outcome.value, GaugeMax))) =>
              /\ ret.status = "error"
              /\ ret.message # "No data available"
              /\ ret.current_level = None
              /\ ret.timestamp = None

\* the drawn sample carries every key its assessor reads
SampleComplete ==
    IF arg.kind = "current" THEN CurrentKeys \subseteq DOMAIN arg.sample
                            ELSE ForecastKeys \subseteq DOMAIN arg.sample

\* the rules in their fixed order, each with the text the assessor appends
RuleText ==
    <<"High wind speed", "Strong wind gusts",
      IF arg.kind = "current" THEN "Active precipitation" ELSE "High rain chance",
      "Cold temperature", "Very hot temperature">>

RuleViolated ==
    IF arg.kind = "current"
    THEN <<arg.sample.wind_speed_10m > 15, arg.sample.wind_gusts_10m > 20,
           arg.sample.precipitation > 10,
           arg.sample.temperature_2m < 50, arg.sample.temperature_2m > 95>>
    ELSE <<arg.sample.wind_speed > 15, arg.sample.wind_gusts > 20,
           arg.sample.precipitation_probability > 70,
           arg.sample.temperature < 50, arg.sample.temperature > 95>>

RuleOf(text) == CHOOSE k \in 1..5 : RuleText[k] = text

\* C12: the assessors collect the violated rules in the fixed order wind
\* speed > 15, gust > 20, precipitation (amount > 0.1 for current conditions,
\* probability > 70 for a forecast), temperature < 50, temperature > 95, and
\* return good for no issue, caution for exactly one, poor for two or more;
\* a sample missing a required field gives status error instead of raising.
C12_Assessment ==
    pc = "done" =>
        IF SampleComplete
        THEN LET n == Cardinality({k \in 1..5 : RuleViolated[k]})
             IN  /\ Len(ret.issues) = n
                 /\ \A k \in 1..5 :
                       RuleViolated[k] <=>
                         \E m \in 1..Len(ret.issues) : ret.issues[m] = RuleText[k]
                 /\ \A m, n2 \in 1..Len(ret.issues) :
                       m < n2 => RuleOf(ret.issues[m]) < RuleOf(ret.issues[n2])
                 /\ n = 0 => ret.status = "good"
                 /\ n = 1 => ret.status = "caution"
                 /\ n >= 2 => ret.status = "poor"
        ELSE ret.status = "error"

\* a forecast sample that violates every rule but the temperature ones
C12_Witness ==
    /\ pc = "done"
    /\ arg.kind = "forecast"
    /\ ret.status = "poor"
    /\ ret.issues = <<"High wind speed", "Strong wind gusts", "High rain chance">>

\* C13: with a signed threshold t the whitewater filter excludes a river
\* exactly when (t < 0 and difficulty < |t|) or (t >= 0 and difficulty >= t),
\* and excludes none without a threshold; t = -3 excludes 0..2 and keeps 3
\* and above, t = 3 excludes 3 and above and keeps 0..2; the single-date and
\* the weekly evaluation apply the same predicate.
C13_WhitewaterFilter ==
    pc = "done" =>
        LET t == arg.max_whitewater
            difficulty == arg.whitewater
            abs == IF t[1] < 0 THEN 0 - t[1] ELSE t[1]
        IN  /\ t = None => ~ret.single
            /\ t # None =>
                  (ret.single <=> \/ (t[1] < 0 /\ difficulty < abs)
                                  \/ (t[1] >= 0 /\ difficulty >= t[1]))
            /\ t = Some(0 - 3) => (ret.single <=> difficulty \in 0..2)
            /\ t = Some(3) => (ret.single <=> difficulty >= 3)
            /\ ret.weekly = ret.single

\* the minimum filter -3 keeps a river of difficulty 3
C13_Witness ==
    /\ pc = "done"
    /\ arg.max_whitewater = Some(0 - 3)
    /\ arg.whitewater = 3
    /\ ~ret.single /\ ~ret.weekly

\* the run in progress is a weekly one
WeeklyRun == pc \in {"get_weekly_river_forecast", "day_rows", "days_done"}
                \/ (pc = "returned" /\ day_offset > 0)

\* the run has a catalog and parameters
Running == params # NoArg

\* row n of the catalog fails the whitewater filter of the run
WhitewaterExcluded(n) ==
    LET t == params.max_whitewater
    IN  /\ t # None
        /\ \/ (t[1] < 0 /\ df[n].whitewater < 0 - t[1])
           \/ (t[1] >= 0 /\ df[n].whitewater >= t[1])

\* the distance of row n from home: known when both ZIPs have coordinates
KnownDistance(n) ==
    IF params.home_located THEN services[n].geocode ELSE None

\* row n passes the whitewater filter and fails the distance filter
DistanceExcluded(n) ==
    /\ ~WhitewaterExcluded(n)
    /\ params.max_distance # None
    /\ KnownDistance(n) # None
    /\ KnownDistance(n)[1] > params.max_distance[1]

\* the requests of a service made so far for row n
CallsFor(service, n) ==
    {k \in 1..Len(calls) : calls[k].service = service /\ calls[k].name = n}

\* C14: excluded rivers short-circuit: in a single-date or weekly run no
\* gauge lookup and no weather lookup is ever made for a river excluded by
\* the whitewater filter or by the distance filter, and a river excluded by
\* the whitewater filter is not geocoded either.
C14_ExcludedShortCircuit ==
    Running =>
        \A n \in 1..Len(df) :
            /\ (WhitewaterExcluded(n) \/ DistanceExcluded(n)) =>
                  CallsFor("gauge", n) = {} /\ CallsFor("weather", n) = {}
            /\ WhitewaterExcluded(n) => CallsFor("geocode", n) = {}

\* a finished single-date run whose first river failed the whitewater
\* filter and whose second river was geocoded and failed the distance filter
C14_Witness ==
    /\ pc = "returned"
    /\ ~WeeklyRun
    /\ Len(df) = 2
    /\ WhitewaterExcluded(1)
    /\ DistanceExcluded(2)
    /\ CallsFor("geocode", 2) # {}
    /\ calls = <<Call("geocode", 0, 0), Call("geocode", 2, 0)>>

\* the rows of the catalog a run excludes by one of its two filters
ExcludedRows == {n \in 1..Len(df) : WhitewaterExcluded(n) \/ DistanceExcluded(n)}

\* a listed river is within the maximum distance, or has no distance
WithinMaximum(r) ==
    \/ params.max_distance = None
    \/ r.distance_miles = None
    \/ r.distance_miles[1] <= params.max_distance[1]

\* the names of the rivers of a list
Names(list) == {list[k].name : k \in 1..Len(list)}

\* C15: with a maximum distance, a river is excluded by the distance filter
\* exactly when its distance is known and exceeds the maximum: at the end of
\* the loop over the catalog (of the run, or of each day of a weekly run) the
\* excluded rivers are those that fail the whitewater filter or have a known
\* distance above the maximum; every listed river has a distance that is
\* absent or at most the maximum; a river without a computable distance is
\* never excluded by the distance filter.
C15_DistanceFilter ==
    /\ (pc \in {"rows", "day_rows"} /\ index > Len(df)) =>
          /\ excluded_count = Cardinality(ExcludedRows)
          /\ \A n \in 1..Len(df) :
                (~WhitewaterExcluded(n) /\ KnownDistance(n) = None) =>
                    /\ ~DistanceExcluded(n)
                    /\ pc = "rows" => n \in Names(results)
          /\ \A n \in ExcludedRows : n \notin Names(results) \cup Names(day_results)
    /\ Running =>
          /\ \A k \in 1..Len(results) : WithinMaximum(results[k])
          /\ \A k \in 1..Len(day_results) : WithinMaximum(day_results[k])
          /\ \A d \in 1..Len(daily_forecasts) :
                \A k \in 1..Len(daily_forecasts[d].rivers) :
                    WithinMaximum(daily_forecasts[d].rivers[k])

\* the loop of a single-date run with a 30 mile maximum has ended: the first
\* river, at 30.0 miles, is listed and the second, at 30.1 miles, is excluded
C15_Witness ==
    /\ pc = "rows" /\ index > Len(df)
    /\ Len(df) = 2
    /\ params.max_distance = Some(300)
    /\ KnownDistance(1) = Some(300) /\ 1 \in Names(results)
    /\ KnownDistance(2) = Some(301) /\ DistanceExcluded(2)
    /\ excluded_count = 1

\* the recommendation tiers
Tiers ==
    {"Perfect conditions!", "Excellent choice!", "Good option",
     "Marginal conditions", "Poor conditions", "Avoid"}

\* the rivers of a list named n
Listed(list, n) == {k \in 1..Len(list) : list[k].name = n}

\* the gauge or the weather service failed for row n of a single-date run
CollaboratorFailed(n) ==
    \/ services[n].gauge.kind = "raise"
    \/ services[n].weather = None
    \/ (~is_today(params.target_date)
          /\ get_forecast_for_date(services[n].weather[1],
                                   params.target_date[1]) = None)

WaterIssues == {"Water data unavailable"}
WeatherIssues ==
    {"Weather data unavailable", "Weather forecast unavailable",
     "Forecast data unavailable for target date", "Weather error"}

\* the issue list of r has an entry of the given kind
HasIssue(r, entries) == \E k \in 1..Len(r.issues) : r.issues[k] \in entries

\* C17: every collaborator failure becomes both a degraded status and an
\* issue string: a returned result whose water status is no_data or error
\* (or absent) has a water entry in its issue list, and a returned result
\* without weather assessment has a weather entry in its issue list.
C17_FailureHasIssue ==
    (pc = "returned" /\ ~WeeklyRun) =>
        \A k \in 1..Len(results) :
            /\ (\/ results[k].water_status = None
                \/ results[k].water_status[1].status \in {"no_data", "error"}) =>
                  HasIssue(results[k], WaterIssues)
            /\ results[k].weather_status = None =>
                  HasIssue(results[k], WeatherIssues)

\* the weather service has no forecast sample of the date for row n
NoForecast(n, date) ==
    \/ services[n].weather = None
    \/ get_forecast_for_date(services[n].weather[1], date) = None

\* the water component and the distance bonus of a listed river, in hundredths
PartialScore(r) ==
    LET water == WaterScore([r EXCEPT !.current_conditions = None])
    IN  Round(100 * water.n + DistanceBonus(r.distance_miles) * water.d, water.d)

\* C18: in a weekly run a river that passes the filters but has no
\* obtainable forecast sample for a date is still in the ranked list of that
\* date, with the weather assessment absent and the partial score (water
\* component + distance bonus), as in the single-date evaluation.
C18_ListedWithoutForecast ==
    (pc = "returned" /\ WeeklyRun) =>
        \A d \in 1..Len(daily_forecasts) :
            \A n \in 1..Len(df) :
                (n \notin ExcludedRows /\ NoForecast(n, daily_forecasts[d].date)) =>
                    \E k \in 1..Len(daily_forecasts[d].rivers) :
                        LET r == daily_forecasts[d].rivers[k]
                        IN  /\ r.name = n
                            /\ r.weather_status = None
                            /\ r.score = PartialScore(r)

\* C19: when the target date is in the future, every returned river result
\* records in its issue list that its water status was computed from the
\* current gauge reading: the list has an entry that is not a weather entry.
C19_CurrentReadingNoted ==
    (pc = "returned" /\ ~WeeklyRun /\ ~is_today(params.target_date)) =>
        \A k \in 1..Len(results) :
            /\ results[k].water_status # None
            /\ \E e \in 1..Len(results[k].issues) :
                  results[k].issues[e] \notin WeatherIssues

\* the two lists hold the same rivers, each as often
Permutation(a, b) ==
    /\ Len(a) = Len(b)
    /\ \A x \in {a[k] : k \in 1..Len(a)} \cup {b[k] : k \in 1..Len(b)} :
          Cardinality({k \in 1..Len(a) : a[k] = x})
            = Cardinality({k \in 1..Len(b) : b[k] = x})

\* `after` is `before` in non-increasing order of the key, the rivers of
\* equal key in the order they have in `before`
StablySorted(before, after, key) ==
    /\ Permutation(before, after)
    /\ \A k \in 1..(Len(after) - 1) : after[k][key] >= after[k + 1][key]
    /\ \A j, k \in 1..Len(after) :
          (j < k /\ after[j][key] = after[k][key]) =>
              \E m, n \in 1..Len(before) :
                  m < n /\ before[m] = after[j] /\ before[n] = after[k]

\* the rivers of a list are in catalog order
CatalogOrder(list) ==
    \A j, k \in 1..Len(list) : j < k => list[j].name < list[k].name

\* C20: the list returned for one date is a permutation of the evaluated
\* rivers in non-increasing order of score, and the sort is stable: rivers of
\* equal score keep their catalog order, in evaluate_all_rivers and in each
\* day of get_weekly_river_forecast.
C20_StableDescendingSort ==
    [][/\ (pc = "rows" /\ pc' = "returned") =>
             /\ CatalogOrder(results)
             /\ StablySorted(results, results', "overall_score")
       /\ (pc = "day_rows" /\ Len(daily_forecasts') = Len(daily_forecasts) + 1) =>
             /\ CatalogOrder(day_results)
             /\ StablySorted(day_results,
                             daily_forecasts'[Len(daily_forecasts')].rivers,
                             "score")]_vars

\* a returned list of two rivers of equal score, in catalog order
C20_Witness ==
    /\ pc = "returned" /\ ~WeeklyRun
    /\ Len(results) = 2
    /\ results[1].overall_score = results[2].overall_score
    /\ results[1].name = 1 /\ results[2].name = 2

(***************************************************************************)
(* Properties of the day score (SpecDayScore)                              *)
(***************************************************************************)

DayClosed == pc = "done" /\ ret # NoArg

\* the highest score in a non-empty list of rivers
BestScore(list) ==
    CHOOSE s \in {list[j].score : j \in 1..Len(list)} :
        \A j \in 1..Len(list) : list[j].score <= s

\* the list without one river holding the highest score
WithoutBest(list) ==
    LET at == CHOOSE j \in 1..Len(list) : list[j].score = BestScore(list)
    IN  SubSeq(list, 1, at - 1) \o SubSeq(list, at + 1, Len(list))

\* C21: the day score is the mean of the two highest river scores of the day
\* when two or more rivers qualified, the single score when one did and 0
\* when none did; it never exceeds the best river score of the day
\* (day_score is held in two-hundredths, a river score in hundredths)
C21_DayScore ==
    DayClosed =>
        /\ Len(arg) >= 2 =>
              /\ ret.day_score = BestScore(arg) + BestScore(WithoutBest(arg))
              /\ ret.day_score <= 2 * BestScore(arg)
        /\ Len(arg) = 1 =>
              ret.day_score = 2 * arg[1].score
        /\ Len(arg) = 0 => ret.day_score = 0

\* three rivers qualified, the lowest score first in catalog order
C21_Witness ==
    /\ DayClosed
    /\ Len(arg) = 3
    /\ arg[1].score < arg[2].score
    /\ arg[2].score < arg[3].score
    /\ ret.day_score = arg[2].score + arg[3].score

(***************************************************************************)
(* Properties of the weekly run (SpecWeek)                                 *)
(***************************************************************************)

\* the days are in order of day score, non-increasing, equal scores by date
DaysOrdered(days) ==
    \A a, b \in 1..Len(days) :
        a < b => \/ days[a].day_score > days[b].day_score
                 \/ /\ days[a].day_score = days[b].day_score
                    /\ days[a].date < days[b].date

\* one record for each day offset 1..ForecastDays, none twice, none for today
SevenDays(days) ==
    /\ Len(days) = ForecastDays
    /\ {days[a].date : a \in 1..Len(days)} = 1..ForecastDays

\* the steps a weekly run still has to take: the rows left of the day, its
\* close, every later day in full, the final sort
WeekStepsLeft ==
    IF pc = "get_weekly_river_forecast" THEN ForecastDays * (Len(df) + 1) + 2
    ELSE IF pc = "day_rows"
    THEN (ForecastDays - day_offset) * (Len(df) + 1) + (Len(df) + 1 - index) + 2
    ELSE IF pc = "days_done" THEN 1
    ELSE 0

\* C22: a weekly run over any catalog and any collaborator outcomes ends
\* (every step leaves one step fewer to take and leaves the run either able
\* to step again or returned), and what it returns is exactly one record for
\* each day offset 1..7 (never today, no date twice, days without a
\* qualifying river included), ordered by day score, non-increasing,
\* equal-score days in chronological order
C22_WeekReturnsSevenDays ==
    [][/\ WeekStepsLeft >= 1
       /\ WeekStepsLeft' = WeekStepsLeft - 1
       /\ pc' \in {"day_rows", "days_done", "returned"}
       /\ pc' = "returned" <=> WeekStepsLeft' = 0
       /\ pc' = "returned" => /\ SevenDays(daily_forecasts')
                              /\ DaysOrdered(daily_forecasts')]_vars

\* a returned week holding a day without rivers behind a day with some
C22_Witness ==
    /\ WeeklyRun
    /\ pc = "returned"
    /\ \E a, b \in 1..Len(daily_forecasts) :
          /\ a < b
          /\ daily_forecasts[a].rivers # <<>>
          /\ daily_forecasts[b].rivers = <<>>
          /\ daily_forecasts[b].day_score = 0

(***************************************************************************)
(* Properties of the entry points (SpecRun)                                *)
(***************************************************************************)

\* the run was given a date string that is not a date
DateUnparseable == Running /\ params.target_date = Some(BadDate)

\* C23: a target date string that does not parse is rejected with an error at
\* the entry point (check_rivers_today as well as evaluate_all_rivers): the
\* run never reaches the catalog, no geocoding, gauge or weather request is
\* ever made and no result list comes back
C23_BadDateRejected ==
    DateUnparseable =>
        /\ pc \in {"check_rivers_today", "evaluate_all_rivers", "rejected"}
        /\ calls = <<>>
        /\ results = <<>>
        /\ index = 0

\* a run over a catalog with rows, for a locatable home, rejected for its date
C23_Witness ==
    /\ DateUnparseable
    /\ pc = "rejected"
    /\ Len(df) > 0
    /\ params.home_located

(***************************************************************************)
(* Properties of the class parser (SpecClass)                              *)
(***************************************************************************)

Parsed == pc = "done" /\ ret # NoArg

\* the tokens of a class string: its parts between hyphens, blanks trimmed
Tokens(str) == LET parts == split(strip(str))
               IN  [at \in 1..Len(parts) |-> strip(parts[at])]

Known(token) == class_map_get(token) # None

\* some token of the string is text that is not a class
HasUnrecognized(str) ==
    \E at \in 1..Len(Tokens(str)) :
        Tokens(str)[at] # <<>> /\ ~Known(Tokens(str)[at])

Unparseable == [min_class |-> None, max_class |-> None]

\* C24: parse_class_range maps A, B, C to 0 and I..VI to 1..6, gives (n, n)
\* for a bare token and (lo, hi) for a hyphenated pair, and for an empty or
\* missing input or any input holding an unrecognized token gives the
\* unparseable result with both bounds absent
C24_ParseClassRange ==
    Parsed =>
        /\ arg = None \/ arg = Some(<<>>) => ret = Unparseable
        /\ arg # None /\ arg # Some(<<>>) =>
              LET tokens == Tokens(arg[1])
              IN  /\ Len(tokens) = 1 /\ Known(tokens[1]) =>
                         ret = [min_class |-> class_map_get(tokens[1]),
                                max_class |-> class_map_get(tokens[1])]
                  /\ Len(tokens) = 2 /\ Known(tokens[1]) /\ Known(tokens[2]) =>
                         ret = [min_class |-> class_map_get(tokens[1]),
                                max_class |-> class_map_get(tokens[2])]
                  /\ HasUnrecognized(arg[1]) => ret = Unparseable

\* C30: whenever parse_class_range returns both bounds, they form an interval
\* with 0 <= min <= max <= 6, for every input built from tokens and hyphens
C30_ParsedIntervalWellFormed ==
    Parsed /\ ret.min_class # None /\ ret.max_class # None =>
        /\ 0 <= ret.min_class[1]
        /\ ret.min_class[1] <= ret.max_class[1]
        /\ ret.max_class[1] <= 6

(***************************************************************************)
(* Properties of the class filter (SpecRiverClass)                         *)
(***************************************************************************)

\* the row's class parsed to an interval that overlaps the target interval
Overlaps(row, class_range) ==
    LET parsed == parse_class_range(row.Class)
    IN  /\ parsed.min_class # None
        /\ parsed.max_class # None
        /\ parsed.max_class[1] >= class_range.min_class
        /\ parsed.min_class[1] <= class_range.max_class

\* the positions of the catalog's rows that overlap the target interval
Retained(catalog, class_range) ==
    {j \in 1..Len(catalog) : Overlaps(catalog[j], class_range)}

\* `rows` is exactly the retained rows of the catalog, in catalog order
ExactlyRetained(rows, catalog, class_range) ==
    LET kept == Retained(catalog, class_range)
    IN  /\ Len(rows) = Cardinality(kept)
        /\ \A j \in kept :
               rows[Cardinality({b \in kept : b <= j})] = catalog[j]

\* C25: river_class with target interval [lo, hi] retains exactly the catalog
\* rows whose parsed interval has parsed_max >= lo and parsed_min <= hi, in
\* their original order, and leaves the catalog as it was; a row whose class
\* fails to parse (either bound absent) is never retained; filtering the
\* result again with the same interval gives the same rows
C25_RiverClass ==
    [][/\ df' = df
       /\ ExactlyRetained(ret', df, arg)
       /\ \A j \in 1..Len(df) :
              (\E bound \in {"min_class", "max_class"} :
                   parse_class_range(df[j].Class)[bound] = None)
                  => \A at \in 1..Len(ret') : ret'[at].Name # j
       /\ pc' = "filtered_twice" => ret' = ret]_vars

\* a catalog filtered twice: one row kept, one row with a half-parsed class
\* and one row outside the interval dropped
C25_Witness ==
    /\ pc = "filtered_twice"
    /\ Len(ret) = 1
    /\ \E j, b \in 1..Len(df) :
          /\ j < b
          /\ df[j].Class = Some(<<"I", "I", "-">>)
          /\ ret[1] = df[b]
          /\ parse_class_range(df[b].Class).min_class[1] < arg.min_class

(***************************************************************************)
(* Properties of the presets (SpecPreset)                                  *)
(***************************************************************************)

PresetDone == pc = "done" /\ ret # NoArg

\* the filters of the preset that was not called, for the same proximity
OtherPreset ==
    IF arg.preset = "whitewater_forecast" THEN casual_forecast(arg.proximity)
    ELSE whitewater_forecast

\* C26: the whitewater preset runs the weekly planner with the minimum
\* difficulty 3 (threshold -3) and no distance cap; the casual preset runs it
\* with the maximum difficulty 3 and a cap of 30 miles if and only if
\* proximity is "close"; so without a distance cap every river passes the
\* difficulty filter of exactly one of the two presets
C26_Presets ==
    PresetDone =>
        /\ arg.preset = "whitewater_forecast" =>
              /\ ret.filters.max_whitewater = Some(0 - 3)
              /\ ret.filters.max_distance = None
              /\ ret.listed <=> arg.row.whitewater >= 3
        /\ arg.preset = "casual_forecast" =>
              /\ ret.filters.max_whitewater = Some(3)
              /\ arg.proximity = Some("close") <=>
                     ret.filters.max_distance = Some(300)
              /\ arg.proximity # Some("close") =>
                     ret.filters.max_distance = None
        /\ ret.filters.max_distance = None /\ OtherPreset.max_distance = None =>
              (ret.listed <=> ~PresetLists(OtherPreset, arg.row))

\* the casual preset without a cap, for a river of difficulty 3 more than 30
\* miles away: not listed, and listed by the whitewater preset
C26_Witness ==
    /\ PresetDone
    /\ arg.preset = "casual_forecast"
    /\ arg.proximity = Some("far")
    /\ arg.row = [whitewater |-> 3, distance_miles |-> Some(301)]
    /\ ~ret.listed
    /\ PresetLists(whitewater_forecast, arg.row)

(***************************************************************************)
(* Properties of the water status across dates (SpecDates)                 *)
(***************************************************************************)

DatesDone == pc = "done" /\ ret # NoArg

\* two water components are the same number of points
SamePoints(a, b) == a.d # 0 /\ b.d # 0 /\ a.n * b.d = b.n * a.d

BoundsOrdered(bounds) ==
    /\ bounds.min_level # None /\ bounds.max_level # None =>
           bounds.min_level[1] <= bounds.max_level[1]
    /\ bounds.min_cfs # None /\ bounds.max_cfs # None =>
           bounds.min_cfs[1] <= bounds.max_cfs[1]

\* the water component is exactly `points`, or at least `points`
WaterIs(water, points) == water.d > 0 /\ water.n = points * water.d
WaterAtLeast(water, points) == water.d > 0 /\ water.n >= points * water.d

\* C29: for a river with bounds min <= max the water status and the water
\* component of the score are consistent: status good if and only if the
\* component is at least 20, too_low gives 0, too_high gives 5, no_data and
\* error give 0
C29_StatusMatchesComponent ==
    DatesDone /\ BoundsOrdered(arg.bounds) =>
        LET status == ret.today.water_status[1].status
            water == ret.today.water
        IN  /\ status \in {"good", "too_low", "too_high", "no_data", "error"}
            /\ status = "good" <=> WaterAtLeast(water, 20)
            /\ status = "too_low" => WaterIs(water, 0)
            /\ status = "too_high" => WaterIs(water, 5)
            /\ status \in {"no_data", "error"} => WaterIs(water, 0)

\* a reading above the maximum of ordered bounds: too_high and 5 points
C29_Witness ==
    /\ DatesDone
    /\ BoundsOrdered(arg.bounds)
    /\ arg.bounds.min_level = Some(0)
    /\ arg.bounds.max_level = Some(5)
    /\ ret.today.water_status[1].metric = "feet"
    /\ ret.today.water_status[1].current_level = Some(6)
    /\ ret.today.water_status[1].status = "too_high"
    /\ WaterIs(ret.today.water, 5)

(***************************************************************************)
(* Properties of the two scoring functions (SpecAgree)                     *)
(***************************************************************************)

AgreeDone == pc = "done" /\ ret # NoArg

\* C28: the two scoring implementations agree: for a river record built from
\* the same water status (status error and no_data included), the same
\* forecast sample (or none) and the same distance (or none),
\* calculate_weekly_river_score returns exactly what calculate_river_score
\* returns
C28_ScoresAgree ==
    AgreeDone => ret.single # None /\ ret.weekly = ret.single

\* a river whose water status is error, scored with a sample and a distance
C28_Witness ==
    /\ AgreeDone
    /\ ret.water_status[1].status = "error"
    /\ arg.sample # None
    /\ arg.distance_miles # None
    /\ ret.weekly = ret.single
    /\ ret.weekly # None

====
